---- MODULE Spec2Model ----
(***************************************************************************)
(* Model of src/script_fast.py: the extended-duration video constructor     *)
(* create_extended_video_fast, its duration probe get_video_duration, the   *)
(* ffprobe / ffmpeg child processes it spawns and the files it touches.     *)
(*                                                                          *)
(* Durations are whole seconds (the code uses floats; the arithmetic that   *)
(* matters, ceil(target / original), is modelled exactly on integers).      *)
(* A KeyboardInterrupt is delivered while the caller sits in a blocking     *)
(* call: the probe wait, the manifest write, the output read, the exit wait.*)
(* Specification Spec runs one invocation; SpecConc runs two invocations    *)
(* concurrently against the same filesystem.                                *)
(***************************************************************************)
EXTENDS Integers, Sequences, FiniteSets, TLC

VARIABLES
    pc,                 \* position of each invocation in create_extended_video_fast
    args,               \* video_path, output_path, duration_hours of each invocation
    original_duration,  \* local: result of get_video_duration
    num_loops,          \* local: ceil(target_duration / original_duration)
    written,            \* local: loop index i of the manifest write loop
    handle,             \* inode the open manifest file object f refers to
    probe,              \* the ffprobe child of each invocation
    process,            \* the ffmpeg child (Popen object) of each invocation
    pipe,               \* lines buffered in the child's stdout pipe
    shown,              \* number of progress lines the caller has printed
    pending,            \* exception (or return) in flight while the finally block runs
    outcome,            \* how the invocation ended
    events,             \* history: the steps of each invocation, in order
    fs,                 \* manifest files on disk, by path
    outputs,            \* output files on disk
    dirs,               \* directories on disk
    videos,             \* source video files on disk
    media,              \* what ffprobe reports for each source video
    ffmpeg_lines,       \* number of output lines ffmpeg prints for a job
    message,            \* return code carried by the "ffmpeg failed" exception
    mpc,                \* position of each run of main
    keep_original,      \* args.keep_original of each run of main
    downloaded_video_path,  \* main's local: <<>> is None, else <<path>>
    main_exc,           \* exception main's try block is handling
    cleanup_called,     \* history: cleanup_file was called on the downloaded path
    lpc,                \* position in the loop of create_10_hour_version (script.py)
    clip_duration,      \* clip.duration
    loop_hours,         \* duration_hours of create_10_hour_version
    total_duration,     \* running total of the loop
    clips               \* len(clips)

mainVars == <<mpc, keep_original, downloaded_video_path, main_exc, cleanup_called>>

loopVars == <<lpc, clip_duration, loop_hours, total_duration, clips>>

vars == <<pc, args, original_duration, num_loops, written, handle, probe, process,
          pipe, shown, pending, outcome, events, fs, outputs, dirs, videos, media,
          ffmpeg_lines, message, mainVars, loopVars>>

(* ---------------------------- bounds ------------------------------------ *)
MaxHours == 2
MaxLines == 2
PipeCap == 1
MantissaBits == 12
MaxClips == 40

(* ---------------------------- constants --------------------------------- *)
SecondsPerHour == 3600

Invs == {1, 2}

Hours == -1 .. MaxHours

Durations == {-900, 0, 900, 1799, 1800, 3599, 3600, 3601, 7201}

VideoPaths == { [dir |-> <<"downloads">>, stem |-> "a", ext |-> "mkv"],
                [dir |-> <<"/", "srv">>,  stem |-> "b", ext |-> "mp4"] }

OutputDirs == { <<"output">>, <<"/", "out2">> }

Cwd == <<"/", "cwd">>

ExitCodes == {0, 1, 2}

\* lines of ffmpeg's merged stdout/stderr: progress lines carry "time="
OutputLines == { [text |-> "frame= 1 fps=0.0 size= 1kB time=00:00:01.00", time |-> TRUE],
                 [text |-> "Press [q] to stop, [?] for help", time |-> FALSE] }

HasTime(line) == line.time

ProbeOutcomes ==
    { [rc |-> c, parse |-> TRUE, val |-> d] : c \in ExitCodes, d \in Durations }
    \cup { [rc |-> c, parse |-> FALSE, val |-> 0] : c \in ExitCodes }

Exited == {"done", "failed"}

(* ---------------------------- paths and files --------------------------- *)
Join(d, name) == [dir |-> d, name |-> name]

IsAbs(d) == Len(d) > 0 /\ d[1] = "/"

AbsPath(p) == IF IsAbs(p.dir) THEN p ELSE [p EXCEPT !.dir = Cwd \o @]

ConcatFile(i) == Join(args[i].output_path, "concat_list.txt")

ManifestPaths == { Join(d, "concat_list.txt") : d \in OutputDirs }

OutputFile(i) ==
    Join(args[i].output_path,
         <<ToString(args[i].duration_hours), "h_", args[i].video_path.stem, ".mp4">>)

ManifestLine(p) == [directive |-> "file", quoted |-> AbsPath(p)]

NoFile == [exists |-> FALSE, ino |-> 0, lines |-> <<>>]

NoMessage == [text |-> "", code |-> 0]

NoProcess == [state |-> "none", exit |-> 0, left |-> 0]

TargetDuration(i) == args[i].duration_hours * SecondsPerHour

CeilDiv(a, b) == IF b > 0 THEN -((-a) \div b) ELSE -(a \div (-b))

\* mutant: the quotient rounded down instead of up
NumLoopsFloor(target, original) == target \div original

NumLoops(target, original) == CeilDiv(target, original)

Has(i, e) == \E k \in 1..Len(events[i]) : events[i][k] = e

Before(i, a, b) ==
    \E k \in 1..Len(events[i]) : \E l \in 1..Len(events[i]) :
        k < l /\ events[i][k] = a /\ events[i][l] = b

Log(i, e) == events' = [events EXCEPT ![i] = Append(@, e)]

TerminationRequests == {}

(* ---------------------------- initial states ---------------------------- *)
InitLocals ==
    /\ original_duration = [i \in Invs |-> 0]
    /\ num_loops = [i \in Invs |-> 0]
    /\ written = [i \in Invs |-> 0]
    /\ handle = [i \in Invs |-> 0]
    /\ probe = [i \in Invs |-> "none"]
    /\ process = [i \in Invs |-> NoProcess]
    /\ pipe = [i \in Invs |-> <<>>]
    /\ shown = [i \in Invs |-> 0]
    /\ pending = [i \in Invs |-> "none"]
    /\ outcome = [i \in Invs |-> "none"]
    /\ events = [i \in Invs |-> <<>>]
    /\ fs = [p \in ManifestPaths |-> NoFile]
    /\ outputs = {}
    /\ message = [i \in Invs |-> NoMessage]

\* main is not running: create_extended_video_fast is called directly
InitNoMain ==
    /\ mpc = [i \in Invs |-> "absent"]
    /\ keep_original = [i \in Invs |-> FALSE]
    /\ downloaded_video_path = [i \in Invs |-> <<>>]
    /\ main_exc = [i \in Invs |-> "none"]
    /\ cleanup_called = [i \in Invs |-> FALSE]

\* create_10_hour_version of script.py is not running
InitNoLoop ==
    /\ lpc = "absent"
    /\ clip_duration = 0
    /\ loop_hours = 0
    /\ total_duration = 0
    /\ clips = 0

Init ==
    /\ InitLocals
    /\ InitNoMain
    /\ InitNoLoop
    /\ pc = [i \in Invs |-> IF i = 1 THEN "idle" ELSE "absent"]
    /\ \E a \in [video_path : VideoPaths, output_path : OutputDirs, duration_hours : Hours] :
          args = [i \in Invs |-> a]
    /\ dirs \in {{}, OutputDirs}
    /\ videos \in SUBSET VideoPaths
    /\ \E r \in ProbeOutcomes : media = [v \in VideoPaths |-> r]
    /\ ffmpeg_lines \in 0..MaxLines

\* one run of main: download, then create_extended_video_fast
InitMain ==
    /\ InitLocals
    /\ InitNoLoop
    /\ pc = [i \in Invs |-> IF i = 1 THEN "uncalled" ELSE "absent"]
    /\ mpc = [i \in Invs |-> IF i = 1 THEN "start" ELSE "absent"]
    /\ \E k \in BOOLEAN : keep_original = [i \in Invs |-> k]
    /\ downloaded_video_path = [i \in Invs |-> <<>>]
    /\ main_exc = [i \in Invs |-> "none"]
    /\ cleanup_called = [i \in Invs |-> FALSE]
    /\ \E a \in [video_path : VideoPaths, output_path : OutputDirs, duration_hours : Hours] :
          args = [i \in Invs |-> a]
    /\ dirs \in {{}, OutputDirs}
    /\ videos = {}
    /\ \E r \in ProbeOutcomes : media = [v \in VideoPaths |-> r]
    /\ ffmpeg_lines \in 0..MaxLines

\* one invocation with valid inputs, for the progress of the read loop
InitLive ==
    /\ InitLocals
    /\ InitNoMain
    /\ InitNoLoop
    /\ pc = [i \in Invs |-> IF i = 1 THEN "idle" ELSE "absent"]
    /\ \E a \in [video_path : VideoPaths, output_path : OutputDirs, duration_hours : {1}] :
          args = [i \in Invs |-> a]
    /\ dirs = OutputDirs
    /\ videos = VideoPaths
    /\ media = [v \in VideoPaths |-> [rc |-> 0, parse |-> TRUE, val |-> 1800]]
    /\ ffmpeg_lines \in 0..MaxLines

InitConc ==
    /\ InitLocals
    /\ InitNoMain
    /\ InitNoLoop
    /\ pc = [i \in Invs |-> "idle"]
    /\ args \in [Invs -> [video_path : VideoPaths, output_path : OutputDirs,
                          duration_hours : {1}]]
    /\ args[1].output_path = <<"output">>
    /\ ffmpeg_lines = 1
    /\ dirs = OutputDirs
    /\ videos = VideoPaths
    /\ media = [v \in VideoPaths |-> [rc |-> 0, parse |-> TRUE, val |-> 3599]]

(* ---------------------------- helpers of the actions -------------------- *)
\* an exception raised outside the inner try: the invocation ends at once
Raise(i, exc) ==
    /\ pc' = [pc EXCEPT ![i] = "failed"]
    /\ outcome' = [outcome EXCEPT ![i] = exc]

\* an exception or a return inside the inner try: the finally block runs first
Unwind(i, exc) ==
    /\ pc' = [pc EXCEPT ![i] = "finally"]
    /\ pending' = [pending EXCEPT ![i] = exc]

\* leaving the finally block: the pending return or exception takes effect
Leave(i) ==
    /\ pc' = [pc EXCEPT ![i] = IF pending[i] = "return" THEN "done" ELSE "failed"]
    /\ outcome' = [outcome EXCEPT ![i] = IF pending[i] = "return" THEN "returned"
                                          ELSE pending[i]]

\* mutant: only a negative duration is rejected
ValidateInputsNegativeOnly(a) ==
    IF a.video_path \notin videos THEN "FileNotFoundError"
    ELSE IF a.duration_hours < 0 THEN "ValueError"
    ELSE "ok"

ValidateInputs(a) ==
    IF a.video_path \notin videos THEN "FileNotFoundError"
    ELSE IF a.duration_hours <= 0 THEN "ValueError"
    ELSE "ok"

\* mutant: the return code of ffprobe is not looked at
GetVideoDurationUnchecked(r) ==
    IF ~r.parse THEN [exc |-> "ValueError", val |-> 0]
    ELSE [exc |-> "ok", val |-> r.val]

GetVideoDuration(r) ==
    IF r.rc # 0 THEN [exc |-> "Exception", val |-> 0]
    ELSE IF ~r.parse THEN [exc |-> "ValueError", val |-> 0]
    ELSE [exc |-> "ok", val |-> r.val]

\* mutant: the manifest is only cleaned up on the success path
ManifestPresentAfterReturn(i) == pending[i] = "return" /\ fs[ConcatFile(i)].exists

ManifestPresent(i) == fs[ConcatFile(i)].exists

(* ---------------------------- create_extended_video_fast ---------------- *)
Validate(i) ==
    /\ pc[i] = "idle"
    /\ LET e == ValidateInputs(args[i]) IN
         IF e # "ok" THEN Raise(i, e)
         ELSE /\ pc' = [pc EXCEPT ![i] = "mkdir"]
              /\ UNCHANGED outcome
    /\ UNCHANGED <<args, original_duration, num_loops, written, handle, probe, process,
                   pipe, shown, pending, events, fs, outputs, dirs, videos, media,
                   ffmpeg_lines, message, mainVars, loopVars>>

MakeDirs(i) ==
    /\ pc[i] = "mkdir"
    /\ \E fails \in BOOLEAN :
         IF fails /\ args[i].output_path \notin dirs
         THEN /\ Raise(i, "IOError")
              /\ UNCHANGED <<dirs, events>>
         ELSE /\ dirs' = dirs \cup {args[i].output_path}
              /\ pc' = [pc EXCEPT ![i] = "probe"]
              /\ Log(i, "makedirs")
              /\ UNCHANGED outcome
    /\ UNCHANGED <<args, original_duration, num_loops, written, handle, probe, process,
                   pipe, shown, pending, fs, outputs, videos, media,
                   ffmpeg_lines, message, mainVars, loopVars>>

ProbeSpawn(i) ==
    /\ pc[i] = "probe"
    /\ \E found \in BOOLEAN :
         IF found
         THEN /\ probe' = [probe EXCEPT ![i] = "running"]
              /\ pc' = [pc EXCEPT ![i] = "probing"]
              /\ Log(i, "probe_spawned")
              /\ UNCHANGED outcome
         ELSE /\ Raise(i, "FileNotFoundError")
              /\ UNCHANGED <<probe, events>>
    /\ UNCHANGED <<args, original_duration, num_loops, written, handle, process,
                   pipe, shown, pending, fs, outputs, dirs, videos, media,
                   ffmpeg_lines, message, mainVars, loopVars>>

\* mutant: the duration is read without waiting for ffprobe to terminate
ProbeExitNoWait(i) ==
    /\ pc[i] = "probing"
    /\ LET res == GetVideoDuration(media[args[i].video_path]) IN
         IF res.exc # "ok"
         THEN /\ Raise(i, res.exc)
              /\ UNCHANGED original_duration
         ELSE /\ original_duration' = [original_duration EXCEPT ![i] = res.val]
              /\ pc' = [pc EXCEPT ![i] = "plan"]
              /\ UNCHANGED outcome
    /\ UNCHANGED <<args, num_loops, written, handle, probe, process,
                   pipe, shown, pending, events, fs, outputs, dirs, videos, media,
                   ffmpeg_lines, message, mainVars, loopVars>>

ProbeExit(i) ==
    /\ pc[i] = "probing"
    /\ probe' = [probe EXCEPT ![i] = "exited"]
    /\ LET res == GetVideoDuration(media[args[i].video_path]) IN
         IF res.exc # "ok"
         THEN /\ Raise(i, res.exc)
              /\ UNCHANGED original_duration
         ELSE /\ original_duration' = [original_duration EXCEPT ![i] = res.val]
              /\ pc' = [pc EXCEPT ![i] = "plan"]
              /\ UNCHANGED outcome
    /\ UNCHANGED <<args, num_loops, written, handle, process,
                   pipe, shown, pending, events, fs, outputs, dirs, videos, media,
                   ffmpeg_lines, message, mainVars, loopVars>>

Plan(i) ==
    /\ pc[i] = "plan"
    /\ IF original_duration[i] = 0
       THEN /\ Raise(i, "ZeroDivisionError")
            /\ UNCHANGED <<num_loops, events>>
       ELSE /\ num_loops' = [num_loops EXCEPT ![i] =
                                NumLoops(TargetDuration(i), original_duration[i])]
            /\ pc' = [pc EXCEPT ![i] = "open"]
            /\ Log(i, "planned")
            /\ UNCHANGED outcome
    /\ UNCHANGED <<args, original_duration, written, handle, probe, process,
                   pipe, shown, pending, fs, outputs, dirs, videos, media,
                   ffmpeg_lines, message, mainVars, loopVars>>

OpenManifest(i) ==
    /\ pc[i] = "open"
    /\ \E ok \in BOOLEAN :
         IF ok
         THEN /\ fs' = [fs EXCEPT ![ConcatFile(i)] =
                          IF @.exists THEN [@ EXCEPT !.lines = <<>>]
                          ELSE [exists |-> TRUE, ino |-> i, lines |-> <<>>]]
              /\ handle' = [handle EXCEPT ![i] =
                              IF fs[ConcatFile(i)].exists THEN fs[ConcatFile(i)].ino ELSE i]
              /\ written' = [written EXCEPT ![i] = 0]
              /\ pc' = [pc EXCEPT ![i] = "writing"]
              /\ Log(i, "created")
              /\ UNCHANGED pending
         ELSE /\ Unwind(i, "OSError")
              /\ UNCHANGED <<fs, handle, written, events>>
    /\ UNCHANGED <<args, original_duration, num_loops, probe, process,
                   pipe, shown, outcome, outputs, dirs, videos, media,
                   ffmpeg_lines, message, mainVars, loopVars>>

WriteLine(i) ==
    /\ pc[i] = "writing"
    /\ written[i] < num_loops[i]
    /\ fs' = IF fs[ConcatFile(i)].exists /\ fs[ConcatFile(i)].ino = handle[i]
             THEN [fs EXCEPT ![ConcatFile(i)].lines =
                      Append(@, ManifestLine(args[i].video_path))]
             ELSE fs
    /\ written' = [written EXCEPT ![i] = @ + 1]
    /\ UNCHANGED <<pc, args, original_duration, num_loops, handle, probe, process,
                   pipe, shown, pending, outcome, events, outputs, dirs, videos, media,
                   ffmpeg_lines, message, mainVars, loopVars>>

CloseManifest(i) ==
    /\ pc[i] = "writing"
    /\ written[i] >= num_loops[i]
    /\ pc' = [pc EXCEPT ![i] = "spawn"]
    /\ Log(i, "closed")
    /\ UNCHANGED <<args, original_duration, num_loops, written, handle, probe, process,
                   pipe, shown, pending, outcome, fs, outputs, dirs, videos, media,
                   ffmpeg_lines, message, mainVars, loopVars>>

Spawn(i) ==
    /\ pc[i] = "spawn"
    /\ \E found \in BOOLEAN :
         IF found
         THEN /\ process' = [process EXCEPT ![i] =
                               [state |-> "running", exit |-> 0, left |-> ffmpeg_lines]]
              /\ pc' = [pc EXCEPT ![i] = "reading"]
              /\ Log(i, "spawned")
              /\ UNCHANGED pending
         ELSE /\ Unwind(i, "FileNotFoundError")
              /\ UNCHANGED <<process, events>>
    /\ UNCHANGED <<args, original_duration, num_loops, written, handle, probe,
                   pipe, shown, outcome, fs, outputs, dirs, videos, media,
                   ffmpeg_lines, message, mainVars, loopVars>>

\* mutant: the output is only read once the child has exited
ReadLineAfterExit(i) ==
    /\ pc[i] = "reading"
    /\ process[i].state = "exited"
    /\ pipe[i] # <<>>
    /\ pipe' = [pipe EXCEPT ![i] = Tail(@)]
    /\ shown' = [shown EXCEPT ![i] = IF HasTime(Head(pipe[i])) THEN @ + 1 ELSE @]
    /\ UNCHANGED <<pc, args, original_duration, num_loops, written, handle, probe, process,
                   pending, outcome, events, fs, outputs, dirs, videos, media,
                   ffmpeg_lines, message, mainVars, loopVars>>

ReadLine(i) ==
    /\ pc[i] = "reading"
    /\ pipe[i] # <<>>
    /\ pipe' = [pipe EXCEPT ![i] = Tail(@)]
    /\ shown' = [shown EXCEPT ![i] = IF HasTime(Head(pipe[i])) THEN @ + 1 ELSE @]
    /\ UNCHANGED <<pc, args, original_duration, num_loops, written, handle, probe, process,
                   pending, outcome, events, fs, outputs, dirs, videos, media,
                   ffmpeg_lines, message, mainVars, loopVars>>

ReadEOF(i) ==
    /\ pc[i] = "reading"
    /\ pipe[i] = <<>>
    /\ process[i].state = "exited"
    /\ pc' = [pc EXCEPT ![i] = "waiting"]
    /\ UNCHANGED <<args, original_duration, num_loops, written, handle, probe, process,
                   pipe, shown, pending, outcome, events, fs, outputs, dirs, videos, media,
                   ffmpeg_lines, message, mainVars, loopVars>>

Wait(i) ==
    /\ pc[i] = "waiting"
    /\ process[i].state = "exited"
    /\ pc' = [pc EXCEPT ![i] = "check"]
    /\ UNCHANGED <<args, original_duration, num_loops, written, handle, probe, process,
                   pipe, shown, pending, outcome, events, fs, outputs, dirs, videos, media,
                   ffmpeg_lines, message, mainVars, loopVars>>

\* mutant: the message does not name the return code of the process
FailureMessageNoCode(returncode) == [text |-> "ffmpeg failed", code |-> 0]

FailureMessage(returncode) == [text |-> "ffmpeg failed with return code", code |-> returncode]

CheckResult(i) ==
    /\ pc[i] = "check"
    /\ IF process[i].exit # 0
       THEN /\ Unwind(i, "Exception")
            /\ message' = [message EXCEPT ![i] = FailureMessage(process[i].exit)]
       ELSE /\ Unwind(i, "return")
            /\ UNCHANGED message
    /\ UNCHANGED <<args, original_duration, num_loops, written, handle, probe, process,
                   pipe, shown, outcome, events, fs, outputs, dirs, videos, media,
                   ffmpeg_lines, mainVars, loopVars>>

Finally(i) ==
    /\ pc[i] = "finally"
    /\ IF ManifestPresent(i)
       THEN /\ pc' = [pc EXCEPT ![i] = "remove"]
            /\ UNCHANGED outcome
       ELSE Leave(i)
    /\ UNCHANGED <<args, original_duration, num_loops, written, handle, probe, process,
                   pipe, shown, pending, events, fs, outputs, dirs, videos, media,
                   ffmpeg_lines, message, mainVars, loopVars>>

Remove(i) ==
    /\ pc[i] = "remove"
    /\ IF fs[ConcatFile(i)].exists
       THEN /\ fs' = [fs EXCEPT ![ConcatFile(i)] = NoFile]
            /\ Log(i, "deleted")
            /\ Leave(i)
       ELSE /\ Raise(i, "FileNotFoundError")
            /\ UNCHANGED <<fs, events>>
    /\ UNCHANGED <<args, original_duration, num_loops, written, handle, probe, process,
                   pipe, shown, pending, outputs, dirs, videos, media,
                   ffmpeg_lines, message, mainVars, loopVars>>

\* os.remove raises inside the finally block (fault injection)
RemoveFails(i) ==
    /\ pc[i] = "remove"
    /\ fs[ConcatFile(i)].exists
    /\ Raise(i, "OSError")
    /\ Log(i, "delete_failed")
    /\ UNCHANGED <<args, original_duration, num_loops, written, handle, probe, process,
                   pipe, shown, pending, fs, outputs, dirs, videos, media,
                   ffmpeg_lines, message, mainVars, loopVars>>

(* ---------------------------- KeyboardInterrupt ------------------------- *)
Interrupt(i) ==
    /\ pc[i] \in {"probing", "writing", "reading", "waiting"}
    /\ IF pc[i] = "probing"
       THEN /\ probe' = [probe EXCEPT ![i] = "killed"]
            /\ Raise(i, "KeyboardInterrupt")
            /\ UNCHANGED pending
       ELSE /\ Unwind(i, "KeyboardInterrupt")
            /\ UNCHANGED <<probe, outcome>>
    /\ UNCHANGED <<args, original_duration, num_loops, written, handle, process,
                   pipe, shown, events, fs, outputs, dirs, videos, media,
                   ffmpeg_lines, message, mainVars, loopVars>>

(* ---------------------------- the ffmpeg child -------------------------- *)
ChildEmit(i) ==
    /\ process[i].state = "running"
    /\ process[i].left > 0
    /\ Len(pipe[i]) < PipeCap
    /\ process' = [process EXCEPT ![i].left = @ - 1]
    /\ \E line \in OutputLines : pipe' = [pipe EXCEPT ![i] = Append(@, line)]
    /\ UNCHANGED <<pc, args, original_duration, num_loops, written, handle, probe,
                   shown, pending, outcome, events, fs, outputs, dirs, videos, media,
                   ffmpeg_lines, message, mainVars, loopVars>>

ChildWriteOutput(i) ==
    /\ process[i].state = "running"
    /\ OutputFile(i) \notin outputs
    /\ outputs' = outputs \cup {OutputFile(i)}
    /\ UNCHANGED <<pc, args, original_duration, num_loops, written, handle, probe, process,
                   pipe, shown, pending, outcome, events, fs, dirs, videos, media,
                   ffmpeg_lines, message, mainVars, loopVars>>

ChildExit(i) ==
    /\ process[i].state = "running"
    /\ \E rc \in ExitCodes :
         /\ rc = 0 => process[i].left = 0
         /\ process' = [process EXCEPT ![i].state = "exited", ![i].exit = rc]
    /\ Log(i, "exited")
    /\ UNCHANGED <<pc, args, original_duration, num_loops, written, handle, probe,
                   pipe, shown, pending, outcome, fs, outputs, dirs, videos, media,
                   ffmpeg_lines, message, mainVars, loopVars>>

(* ---------------------------- main -------------------------------------- *)
coreVars == <<args, original_duration, num_loops, written, handle, probe, process,
              pipe, shown, pending, outcome, events, fs, outputs, dirs, media,
              ffmpeg_lines, message>>

DownloadOutcomes ==
    {"ok", "ValueError", "IOError", "Exception", "FileNotFoundError", "KeyboardInterrupt"}

\* the exception that reaches the except clauses of main
Raised(i) ==
    IF mpc[i] = "handle" THEN main_exc[i]
    ELSE IF mpc[i] = "constructing" /\ pc[i] = "failed" THEN outcome[i]
    ELSE "none"

\* cleanup_file(downloaded_video_path): a failing os.remove is only logged
CleanupFile(i, fails) ==
    /\ videos' = IF fails THEN videos ELSE videos \ {args[i].video_path}
    /\ cleanup_called' = [cleanup_called EXCEPT ![i] = TRUE]

Exit(i, how) == mpc' = [mpc EXCEPT ![i] = how]

MainStart(i) ==
    /\ mpc[i] = "start"
    /\ \E url \in BOOLEAN : Exit(i, IF url THEN "download" ELSE "exit1")
    /\ UNCHANGED <<pc, coreVars, videos, keep_original, downloaded_video_path, main_exc,
                   cleanup_called, loopVars>>

Download(i) ==
    /\ mpc[i] = "download"
    /\ \E r \in DownloadOutcomes :
         IF r = "ok"
         THEN /\ videos' = videos \cup {args[i].video_path}
              /\ downloaded_video_path' =
                    [downloaded_video_path EXCEPT ![i] = <<args[i].video_path>>]
              /\ pc' = [pc EXCEPT ![i] = "idle"]
              /\ Exit(i, "constructing")
              /\ UNCHANGED main_exc
         ELSE /\ main_exc' = [main_exc EXCEPT ![i] = r]
              /\ Exit(i, "handle")
              /\ UNCHANGED <<videos, downloaded_video_path, pc>>
    /\ UNCHANGED <<coreVars, keep_original, cleanup_called, loopVars>>

MainSuccess(i) ==
    /\ mpc[i] = "constructing"
    /\ pc[i] = "done"
    /\ IF ~keep_original[i]
       THEN \E fails \in BOOLEAN : CleanupFile(i, fails)
       ELSE UNCHANGED <<videos, cleanup_called>>
    /\ Exit(i, "done")
    /\ UNCHANGED <<pc, coreVars, keep_original, downloaded_video_path, main_exc, loopVars>>

HandleKeyboardInterrupt(i) ==
    /\ Raised(i) = "KeyboardInterrupt"
    /\ IF downloaded_video_path[i] # <<>> /\ ~keep_original[i]
       THEN \E fails \in BOOLEAN : CleanupFile(i, fails)
       ELSE UNCHANGED <<videos, cleanup_called>>
    /\ Exit(i, "exit1")
    /\ UNCHANGED <<pc, coreVars, keep_original, downloaded_video_path, main_exc, loopVars>>

HandleValueError(i) ==
    /\ Raised(i) = "ValueError"
    /\ Exit(i, "exit1")
    /\ UNCHANGED <<pc, coreVars, videos, keep_original, downloaded_video_path, main_exc,
                   cleanup_called, loopVars>>

HandleFileNotFoundError(i) ==
    /\ Raised(i) = "FileNotFoundError"
    /\ IF downloaded_video_path[i] # <<>>
       THEN \E fails \in BOOLEAN : CleanupFile(i, fails)
       ELSE UNCHANGED <<videos, cleanup_called>>
    /\ Exit(i, "exit1")
    /\ UNCHANGED <<pc, coreVars, keep_original, downloaded_video_path, main_exc, loopVars>>

HandleException(i) ==
    /\ Raised(i) \in {"IOError", "OSError", "Exception", "ZeroDivisionError"}
    /\ IF downloaded_video_path[i] # <<>> /\ ~keep_original[i]
       THEN \E fails \in BOOLEAN : CleanupFile(i, fails)
       ELSE UNCHANGED <<videos, cleanup_called>>
    /\ Exit(i, "exit1")
    /\ UNCHANGED <<pc, coreVars, keep_original, downloaded_video_path, main_exc, loopVars>>

(* ---------------------------- create_10_hour_version (script.py) -------- *)
\* The running total is a float: every addition is rounded to MantissaBits
\* significant bits, to nearest, ties to even (a double has 53).
RECURSIVE Ulp(_)
Ulp(x) == IF x < 2 ^ MantissaBits THEN 1 ELSE 2 * Ulp(x \div 2)

FRound(x) ==
    LET q  == Ulp(x)
        lo == (x \div q) * q
        r  == x - lo
    IN  IF 2 * r < q THEN lo
        ELSE IF 2 * r > q THEN lo + q
        ELSE IF (lo \div q) % 2 = 0 THEN lo ELSE lo + q

FAdd(a, b) == FRound(a + b)

LoopHours == {1, 2}

ClipDurations == { FRound(x) : x \in {0, 225, 277, 327, 400, 450, 596, 900, 1799,
                                       3600, 3601, 7201} }

LoopTarget == loop_hours * SecondsPerHour

\* mutant: the loop also runs when the total equals the target
LoopContinuesInclusive == total_duration <= LoopTarget

LoopContinues == total_duration < LoopTarget

InitLoop ==
    /\ InitLocals
    /\ InitNoMain
    /\ pc = [i \in Invs |-> "absent"]
    /\ args = [i \in Invs |-> [video_path |-> CHOOSE v \in VideoPaths : TRUE,
                                output_path |-> <<"output">>, duration_hours |-> 1]]
    /\ dirs = {}
    /\ videos = VideoPaths
    /\ media = [v \in VideoPaths |-> [rc |-> 0, parse |-> TRUE, val |-> 3600]]
    /\ ffmpeg_lines = 0
    /\ lpc = "loop"
    /\ clip_duration \in ClipDurations
    /\ loop_hours \in LoopHours
    /\ total_duration = 0
    /\ clips = 0

LoopAppend ==
    /\ lpc = "loop"
    /\ LoopContinues
    /\ clips < MaxClips
    /\ clips' = clips + 1
    /\ total_duration' = FAdd(total_duration, clip_duration)
    /\ UNCHANGED <<pc, coreVars, videos, mainVars, lpc, clip_duration, loop_hours>>

LoopExit ==
    /\ lpc = "loop"
    /\ ~LoopContinues
    /\ lpc' = "done"
    /\ UNCHANGED <<pc, coreVars, videos, mainVars, clip_duration, loop_hours,
                   total_duration, clips>>

NextLoop ==
    \/ LoopAppend
    \/ LoopExit

SpecLoop == InitLoop /\ [][NextLoop]_vars /\ WF_vars(NextLoop)

(* ---------------------------- specifications ---------------------------- *)
Next ==
    \/ \E i \in Invs : Validate(i)
    \/ \E i \in Invs : MakeDirs(i)
    \/ \E i \in Invs : ProbeSpawn(i)
    \/ \E i \in Invs : ProbeExit(i)
    \/ \E i \in Invs : Plan(i)
    \/ \E i \in Invs : OpenManifest(i)
    \/ \E i \in Invs : WriteLine(i)
    \/ \E i \in Invs : CloseManifest(i)
    \/ \E i \in Invs : Spawn(i)
    \/ \E i \in Invs : ReadLine(i)
    \/ \E i \in Invs : ReadEOF(i)
    \/ \E i \in Invs : Wait(i)
    \/ \E i \in Invs : CheckResult(i)
    \/ \E i \in Invs : Finally(i)
    \/ \E i \in Invs : Remove(i)
    \/ \E i \in Invs : Interrupt(i)
    \/ \E i \in Invs : ChildEmit(i)
    \/ \E i \in Invs : ChildWriteOutput(i)
    \/ \E i \in Invs : ChildExit(i)

Spec == Init /\ [][Next]_vars

SpecConc == InitConc /\ [][Next]_vars

\* one invocation that no KeyboardInterrupt reaches.  The caller keeps taking
\* its steps; the child writes a line whenever the pipe has room and exits
\* once it has written all its lines (a crash is possible but never forced).
NextLive ==
    \/ \E i \in Invs : Validate(i)
    \/ \E i \in Invs : MakeDirs(i)
    \/ \E i \in Invs : ProbeSpawn(i)
    \/ \E i \in Invs : ProbeExit(i)
    \/ \E i \in Invs : Plan(i)
    \/ \E i \in Invs : OpenManifest(i)
    \/ \E i \in Invs : WriteLine(i)
    \/ \E i \in Invs : CloseManifest(i)
    \/ \E i \in Invs : Spawn(i)
    \/ \E i \in Invs : ReadLine(i)
    \/ \E i \in Invs : ReadEOF(i)
    \/ \E i \in Invs : Wait(i)
    \/ \E i \in Invs : CheckResult(i)
    \/ \E i \in Invs : Finally(i)
    \/ \E i \in Invs : Remove(i)
    \/ \E i \in Invs : ChildEmit(i)
    \/ \E i \in Invs : ChildWriteOutput(i)
    \/ \E i \in Invs : ChildExit(i)

ChildFinish(i) == process[i].left = 0 /\ ChildExit(i)

Fairness ==
    \A i \in Invs :
        /\ WF_vars(ReadLine(i)) /\ WF_vars(ReadEOF(i)) /\ WF_vars(Wait(i))
        /\ WF_vars(CheckResult(i)) /\ WF_vars(Finally(i)) /\ WF_vars(Remove(i))
        /\ WF_vars(ChildEmit(i)) /\ WF_vars(ChildFinish(i))

SpecLive == InitLive /\ [][NextLive]_vars /\ Fairness

\* one run of main around one invocation
NextMain ==
    \/ Next
    \/ \E i \in Invs : MainStart(i)
    \/ \E i \in Invs : Download(i)
    \/ \E i \in Invs : MainSuccess(i)
    \/ \E i \in Invs : HandleKeyboardInterrupt(i)
    \/ \E i \in Invs : HandleValueError(i)
    \/ \E i \in Invs : HandleFileNotFoundError(i)
    \/ \E i \in Invs : HandleException(i)

SpecMain == InitMain /\ [][NextMain]_vars

\* one invocation on a filesystem where deleting the manifest can fail
NextFaulty ==
    \/ Next
    \/ \E i \in Invs : RemoveFails(i)

SpecFaulty == Init /\ [][NextFaulty]_vars

(* ---------------------------- properties -------------------------------- *)
Created(i) == Has(i, "created")
Spawned(i) == Has(i, "spawned")
SourceExists(i) == args[i].video_path \in videos
Reported(i) == media[args[i].video_path]

C2_ReturnedOutputExists ==
    \A i \in Invs : outcome[i] = "returned" => OutputFile(i) \in outputs

\* C3: for a positive source duration and a positive target the computed
\* repeat count is ceil(target / source): it is at least 1, it covers the
\* target, and one repeat less would not cover it.
C3_RepeatCount ==
    \A i \in Invs :
        (Has(i, "planned") /\ original_duration[i] > 0 /\ TargetDuration(i) > 0) =>
            /\ num_loops[i] >= 1
            /\ num_loops[i] * original_duration[i] >= TargetDuration(i)
            /\ (num_loops[i] - 1) * original_duration[i] < TargetDuration(i)

\* C3 witness: a plan whose source duration does not divide the target and
\* that needs more than one repeat.
C3_Witness ==
    \E i \in Invs :
        /\ Has(i, "planned") /\ original_duration[i] > 0
        /\ TargetDuration(i) % original_duration[i] # 0
        /\ num_loops[i] >= 2

\* C4: with an existing source, a probed source duration <= 0 or requested
\* hours <= 0 never leads to a manifest or to an ffmpeg process, and the
\* invocation ends failed with the invalid-duration error (ValueError).
C4_InvalidDurationRejected ==
    \A i \in Invs :
        ( /\ SourceExists(i)
          /\ pc[i] \notin {"absent", "idle"}
          /\ \/ args[i].duration_hours <= 0
             \/ /\ probe[i] = "exited"
                /\ Reported(i).rc = 0 /\ Reported(i).parse /\ Reported(i).val <= 0
                /\ pc[i] # "plan" ) =>
            /\ ~Created(i)
            /\ ~Spawned(i)
            /\ pc[i] = "failed" /\ outcome[i] = "ValueError"

\* C5: in every execution the manifest is closed before the child is spawned,
\* the child exits after it was spawned, and the manifest is not deleted
\* before the spawned child has exited.
C5_ManifestOutlivesChild ==
    \A i \in Invs :
        /\ Spawned(i) => Before(i, "closed", "spawned")
        /\ Has(i, "exited") => Before(i, "spawned", "exited")
        /\ (Spawned(i) /\ Has(i, "deleted")) => Before(i, "exited", "deleted")

\* C6: no invocation has ended by interruption while its ffmpeg child is
\* still running and no termination was requested for that child.
C6_InterruptTerminatesChild ==
    \A i \in Invs :
        ~ ( /\ pc[i] = "failed" /\ outcome[i] = "KeyboardInterrupt"
            /\ process[i].state = "running"
            /\ i \notin TerminationRequests )

\* C7: two invocations that are live at the same time and have both chosen
\* their manifest path use different manifest paths.
UsesManifest(i) ==
    pc[i] \in {"writing", "spawn", "reading", "waiting", "check", "finally", "remove"}

C7_DistinctManifestPaths ==
    \A i \in Invs : \A j \in Invs :
        (i # j /\ UsesManifest(i) /\ UsesManifest(j)) => ConcatFile(i) # ConcatFile(j)

\* C8: an invocation whose source does not exist or whose hours are <= 0 has
\* failed as soon as it has started, with FileNotFoundError resp. ValueError,
\* and has spawned no probe and no ffmpeg, created no manifest and not
\* created the output directory.
C8_FailsImmediately ==
    \A i \in Invs :
        (pc[i] \notin {"absent", "idle"} /\ (~SourceExists(i) \/ args[i].duration_hours <= 0)) =>
            /\ pc[i] = "failed"
            /\ outcome[i] = IF ~SourceExists(i) THEN "FileNotFoundError" ELSE "ValueError"
            /\ probe[i] = "none"
            /\ process[i].state = "none"
            /\ events[i] = <<>>
            /\ ~fs[ConcatFile(i)].exists

\* C8 witness: an existing source with a target of 0 hours, rejected.
C8_Witness ==
    \E i \in Invs :
        /\ pc[i] = "failed" /\ SourceExists(i) /\ args[i].duration_hours = 0
        /\ outcome[i] = "ValueError"

\* C9: when ffprobe has exited non-zero the invocation has failed with the
\* probe's error, and it has created no manifest and spawned no ffmpeg.
C9_ProbeFailureStops ==
    \A i \in Invs :
        (probe[i] = "exited" /\ Reported(i).rc # 0) =>
            /\ pc[i] = "failed" /\ outcome[i] = "Exception"
            /\ ~Created(i) /\ ~Spawned(i)
            /\ process[i].state = "none"
            /\ ~fs[ConcatFile(i)].exists

\* C9 witness: ffprobe exited with code 1 although it printed a duration.
C9_Witness ==
    \E i \in Invs :
        /\ probe[i] = "exited" /\ Reported(i).rc = 1 /\ Reported(i).parse
        /\ Reported(i).val > 0 /\ pc[i] = "failed"

\* C10: in the step that spawns ffmpeg, the manifest holds exactly num_loops
\* lines, each the file directive for the invocation's own absolute source path.
C10_ManifestAtSpawn ==
    [][ \A i \in Invs :
          (pc[i] = "spawn" /\ pc'[i] = "reading") =>
              /\ fs[ConcatFile(i)].exists
              /\ Len(fs[ConcatFile(i)].lines) = num_loops[i]
              /\ \A k \in 1..Len(fs[ConcatFile(i)].lines) :
                    fs[ConcatFile(i)].lines[k] = ManifestLine(args[i].video_path) ]_vars

\* C11: an invocation whose ffmpeg child exited non-zero never returns an
\* output path, whether or not the output file exists; when it got to look at
\* the return code it has failed with the error that carries that code.
C11_NonZeroExitIsFatal ==
    \A i \in Invs :
        (process[i].state = "exited" /\ process[i].exit # 0) =>
            /\ outcome[i] # "returned" /\ pc[i] # "done"
            /\ (pc[i] \in Exited /\ outcome[i] # "KeyboardInterrupt") =>
                  /\ pc[i] = "failed" /\ outcome[i] = "Exception"
                  /\ message[i].code = process[i].exit

\* C11 witness: ffmpeg exited with code 2 after writing the output file, and
\* the invocation has failed.
C11_Witness ==
    \E i \in Invs :
        /\ process[i].state = "exited" /\ process[i].exit = 2
        /\ OutputFile(i) \in outputs
        /\ pc[i] = "failed" /\ outcome[i] = "Exception"

\* C12: a failed deletion of the manifest does not change the outcome: the
\* invocation still returns its output path, or still raises the error it
\* was raising when the finally block began.
C12_DeleteFailureSwallowed ==
    \A i \in Invs :
        (pc[i] \in Exited /\ Has(i, "delete_failed")) =>
            outcome[i] = IF pending[i] = "return" THEN "returned" ELSE pending[i]

\* C13: at most one child of an invocation (ffprobe or ffmpeg) is running at
\* any time, and ffprobe has terminated when ffmpeg is spawned.
LiveChildren(i) ==
    (IF probe[i] = "running" THEN 1 ELSE 0) + (IF process[i].state = "running" THEN 1 ELSE 0)

C13_OneChildAtATime ==
    \A i \in Invs :
        /\ LiveChildren(i) <= 1
        /\ Spawned(i) => probe[i] = "exited"

\* C13 witness: after an interrupted attempt the ffmpeg child is the one
\* child still running.
C13_Witness ==
    \E i \in Invs :
        /\ pc[i] = "failed" /\ outcome[i] = "KeyboardInterrupt"
        /\ process[i].state = "running" /\ probe[i] = "exited"

\* C14: with --keep-original the file that download_youtube_video returned
\* stays on disk on every exit path of main.
C14_KeepOriginalKeeps ==
    \A i \in Invs :
        (keep_original[i] /\ downloaded_video_path[i] # <<>>) =>
            downloaded_video_path[i][1] \in videos

\* C17: without --keep-original, once download_youtube_video has returned a
\* path, main does not exit before cleanup_file was called on that path.
C17_DownloadCleanedUp ==
    \A i \in Invs :
        ( /\ ~keep_original[i] /\ downloaded_video_path[i] # <<>>
          /\ mpc[i] \in {"done", "exit1"} ) => cleanup_called[i]

\* C15: a running ffmpeg child always eventually exits, and an invocation
\* that is reading the child's output or waiting for its exit always
\* eventually ends (done or failed).
C15_DrainedChildExits ==
    \A i \in Invs :
        /\ (process[i].state = "running") ~> (process[i].state = "exited")
        /\ (pc[i] \in {"reading", "waiting"}) ~> (pc[i] \in Exited)

\* C15 witness: the pipe is full, the child has more lines to write, and the
\* caller is in its read loop.
C15_Witness ==
    \E i \in Invs :
        /\ pc[i] = "reading" /\ process[i].state = "running"
        /\ Len(pipe[i]) = PipeCap /\ process[i].left > 0

\* C16: a step of an invocation that opens the manifest for writing or removes
\* it changes a file already present at the manifest path only if that file
\* was created by the same invocation.
C16_OnlyOwnManifestTouched ==
    [][ \A i \in Invs :
          ( /\ pc[i] \in {"open", "remove"} /\ pc'[i] # pc[i]
            /\ fs[ConcatFile(i)].exists
            /\ fs'[ConcatFile(i)] # fs[ConcatFile(i)] ) =>
              fs[ConcatFile(i)].ino = i ]_vars

\* the additions of the loop are exact: every multiple of the clip duration
\* up to the one that reaches the target is representable
LoopExact ==
    /\ clip_duration > 0
    /\ \A k \in 1..NumLoops(LoopTarget, clip_duration) :
          FRound(k * clip_duration) = k * clip_duration

\* C18 as stated: for a clip duration > 0 the loop ends having appended
\* exactly ceil(target / clip duration) clips.
C18_LoopCountIsCeil ==
    (lpc = "done" /\ clip_duration > 0) => clips = NumLoops(LoopTarget, clip_duration)

\* C18 amended: when the additions of the running total are exact, the loop
\* terminates and has then appended exactly ceil(target / clip duration)
\* clips, the repeat count of create_extended_video_fast; with a clip
\* duration of 0 the total stays below the target and the loop never ends.
C18_ExactLoopMatchesRepeatCount ==
    /\ [](LoopExact =>
            /\ clips <= NumLoops(LoopTarget, clip_duration)
            /\ lpc = "done" => clips = NumLoops(LoopTarget, clip_duration))
    /\ (LoopExact /\ lpc = "loop") ~> (lpc = "done")
    /\ []((lpc # "absent" /\ clip_duration = 0) =>
            (lpc = "loop" /\ total_duration < LoopTarget))

\* C18 witness: an exact loop that has ended after more than one clip, with
\* a clip duration that does not divide the target.
C18_Witness ==
    /\ lpc = "done" /\ LoopExact
    /\ clips >= 2
    /\ LoopTarget % clip_duration # 0

TypeOK ==
    /\ pc \in [Invs -> {"absent", "uncalled", "idle", "mkdir", "probe", "probing", "plan", "open",
                        "writing", "spawn", "reading", "waiting", "check", "finally",
                        "remove", "done", "failed"}]
    /\ \A i \in Invs : Len(pipe[i]) \in 0..PipeCap /\ process[i].left \in 0..MaxLines
    /\ \A i \in Invs : shown[i] \in 0..MaxLines
    /\ \A i \in Invs : Len(events[i]) <= 8
====
